---- MODULE Spec2Model ----
(***************************************************************************)
(* Model of package sparsesets (sparsesets.go): a sparse set over the     *)
(* integers 0..N-1 kept as two slices, values and positions, and a size.  *)
(*                                                                         *)
(* A Set value is the record [size, values, positions]; the slices are    *)
(* functions over 0..n-1, as Go indexes them.  Every method is an         *)
(* operator from the receiver (and arguments) to an outcome               *)
(*   [ss |-> the receiver afterwards, err |-> "nil" | "error" | "panic"]  *)
(* where "nil" is a normal return, "error" a non-nil error value and      *)
(* "panic" a Go runtime panic (index or slice bounds out of range).       *)
(***************************************************************************)
EXTENDS Integers, FiniteSets, Sequences, TLC

VARIABLES
    size,       \* Set.size
    values,     \* Set.values
    positions,  \* Set.positions
    A,          \* the mathematical set the calls made so far describe
    op,         \* the last call: [name, elem]
    err,        \* how the last call ended: "nil", "error" or "panic"
    out,        \* what the last call returned (queries), else <<>>
    pre         \* the Set as it was before the last call

vars == <<size, values, positions, A, op, err, out, pre>>

\* Largest capacity n given to New.
MaxN == 3

\* How far below zero the model follows size.
MaxUnderflow == 2

----------------------------------------------------------------------------
\* The code

len(a) == Cardinality(DOMAIN a)

Return(ss, e) == [ss |-> ss, err |-> e]

\* New without the loop's positions[i] = i: positions stays as make left it.
New_NoPositionsInit(n) ==
    [size      |-> 0,
     values    |-> [i \in 0..(n - 1) |-> i],
     positions |-> [i \in 0..(n - 1) |-> 0]]

New(n) ==
    [size      |-> 0,
     values    |-> [i \in 0..(n - 1) |-> i],
     positions |-> [i \in 0..(n - 1) |-> i]]

N(ss) == len(ss.values)

Size(ss) == ss.size

\* [err, val]: positions[elem] panics when elem is no index of positions.
Contains(ss, elem) ==
    IF elem \notin DOMAIN ss.positions
    THEN [err |-> "panic", val |-> FALSE]
    ELSE [err |-> "nil", val |-> ss.positions[elem] < ss.size]

\* swap with the last assignment, positions[v2] = p1, left out.
swap_NoSecondPosition(ss, p1, p2) ==
    IF p1 = p2 THEN Return(ss, "nil")
    ELSE IF p1 \notin DOMAIN ss.values \/ p2 \notin DOMAIN ss.values
    THEN Return(ss, "panic")
    ELSE LET v1 == ss.values[p1]
             v2 == ss.values[p2]
         IN  Return([ss EXCEPT !.values = [@ EXCEPT ![p1] = v2, ![p2] = v1],
                               !.positions = [@ EXCEPT ![v1] = p2]], "nil")

swap(ss, p1, p2) ==
    IF p1 = p2 THEN Return(ss, "nil")
    ELSE IF p1 \notin DOMAIN ss.values \/ p2 \notin DOMAIN ss.values
    THEN Return(ss, "panic")
    ELSE LET v1 == ss.values[p1]
             v2 == ss.values[p2]
             s1 == [ss EXCEPT !.values = [@ EXCEPT ![p1] = v2, ![p2] = v1]]
         IN  IF v1 \notin DOMAIN ss.positions THEN Return(s1, "panic")
             ELSE LET s2 == [s1 EXCEPT !.positions = [@ EXCEPT ![v1] = p2]]
                  IN  IF v2 \notin DOMAIN ss.positions THEN Return(s2, "panic")
                      ELSE Return([s2 EXCEPT !.positions = [@ EXCEPT ![v2] = p1]],
                                  "nil")

\* Remove with the swap made before size is decremented.
Remove_SwapBeforeDecrement(ss, elem) ==
    IF elem >= N(ss) THEN Return(ss, "error")
    ELSE IF elem \notin DOMAIN ss.positions THEN Return(ss, "panic")
    ELSE LET p == ss.positions[elem]
         IN  IF p >= ss.size - 1 THEN Return([ss EXCEPT !.size = @ - 1], "nil")
             ELSE LET r == swap(ss, p, ss.size)
                  IN  IF r.err = "panic" THEN r
                      ELSE Return([r.ss EXCEPT !.size = @ - 1], "nil")

\* Remove with the range test written elem > N.
Remove_OffByOneRange(ss, elem) ==
    IF elem > N(ss) THEN Return(ss, "error")
    ELSE IF elem \notin DOMAIN ss.positions THEN Return(ss, "panic")
    ELSE LET p  == ss.positions[elem]
             s1 == [ss EXCEPT !.size = @ - 1]
         IN  IF p >= s1.size THEN Return(s1, "nil")
             ELSE swap(s1, p, s1.size)

Remove(ss, elem) ==
    IF elem >= N(ss) THEN Return(ss, "error")
    ELSE IF elem \notin DOMAIN ss.positions THEN Return(ss, "panic")
    ELSE LET p  == ss.positions[elem]
             s1 == [ss EXCEPT !.size = @ - 1]
         IN  IF p >= s1.size THEN Return(s1, "nil")
             ELSE swap(s1, p, s1.size)

\* Insert without the early return for an element already in the set.
Insert_NoPresentCheck(ss, elem) ==
    IF elem >= N(ss) THEN Return(ss, "error")
    ELSE IF elem \notin DOMAIN ss.positions THEN Return(ss, "panic")
    ELSE LET p == ss.positions[elem]
             r == swap(ss, p, ss.size)
         IN  IF r.err = "panic" THEN r
             ELSE Return([r.ss EXCEPT !.size = @ + 1], "nil")

Insert(ss, elem) ==
    IF elem >= N(ss) THEN Return(ss, "error")
    ELSE IF elem \notin DOMAIN ss.positions THEN Return(ss, "panic")
    ELSE LET p == ss.positions[elem]
         IN  IF p < ss.size THEN Return(ss, "nil")
             ELSE LET r == swap(ss, p, ss.size)
                  IN  IF r.err = "panic" THEN r
                      ELSE Return([r.ss EXCEPT !.size = @ + 1], "nil")

\* Clear that also puts both slices back as New made them.
Clear_Reinitialise(ss) == Return(New(N(ss)), "nil")

Clear(ss) == Return([ss EXCEPT !.size = 0], "nil")

\* a[lo:hi] as the sequence of its elements; Go panics unless
\* 0 <= lo <= hi <= cap(a), and cap(values) = len(values) (made by make).
Slice(a, lo, hi) ==
    IF 0 <= lo /\ lo <= hi /\ hi <= len(a)
    THEN [err |-> "nil", val |-> [k \in 1..(hi - lo) |-> a[lo + k - 1]]]
    ELSE [err |-> "panic", val |-> <<>>]

Content(ss) == Slice(ss.values, 0, ss.size)

Absent(ss) == Slice(ss.values, ss.size, len(ss.values))

\* fmt's %d of an integer and %v of a bool.
FmtInt(i) == IF i < 0 THEN "-" \o ToString(-i) ELSE ToString(i)

FmtBool(b) == IF b THEN "true" ELSE "false"

RECURSIVE Entries(_, _, _)
\* The loop of String over positions[:len-1], from index v on.
Entries(ss, v, last) ==
    IF v >= last THEN ""
    ELSE FmtInt(v) \o ": " \o FmtBool(ss.positions[v] < ss.size) \o ", "
         \o Entries(ss, v + 1, last)

String(ss) ==
    IF len(ss.positions) = 0 THEN "{}"
    ELSE LET lv == len(ss.positions) - 1
             lp == ss.positions[lv]
         IN  "{" \o Entries(ss, 0, lv)
             \o FmtInt(lv) \o ": " \o FmtBool(lp < ss.size) \o "}"

----------------------------------------------------------------------------
\* The program: New(n), then any sequence of calls until one panics.

Self == [size |-> size, values |-> values, positions |-> positions]

\* Arguments tried: every element, one below the range and one above.
Elems == -1..N(Self)

InRange(e) == 0 <= e /\ e < N(Self)

Running == err # "panic"

Install(r) ==
    /\ size' = r.ss.size
    /\ values' = r.ss.values
    /\ positions' = r.ss.positions
    /\ err' = r.err
    /\ pre' = Self

Init ==
    \E n \in 0..MaxN :
        /\ size = New(n).size
        /\ values = New(n).values
        /\ positions = New(n).positions
        /\ A = {}
        /\ op = [name |-> "New", elem |-> n]
        /\ err = "nil"
        /\ out = <<>>
        /\ pre = New(n)

DoInsert ==
    \E e \in Elems :
        /\ Running
        /\ Install(Insert(Self, e))
        /\ A' = IF InRange(e) THEN A \cup {e} ELSE A
        /\ op' = [name |-> "Insert", elem |-> e]
        /\ out' = <<>>

DoRemove ==
    \E e \in Elems :
        /\ Running
        /\ size > -MaxUnderflow
        /\ Install(Remove(Self, e))
        /\ A' = IF InRange(e) THEN A \ {e} ELSE A
        /\ op' = [name |-> "Remove", elem |-> e]
        /\ out' = <<>>

DoClear ==
    /\ Running
    /\ Install(Clear(Self))
    /\ A' = {}
    /\ op' = [name |-> "Clear", elem |-> 0]
    /\ out' = <<>>

Query(name, e, r) ==
    /\ Running
    /\ Install(Return(Self, r.err))
    /\ op' = [name |-> name, elem |-> e]
    /\ out' = r.val
    /\ UNCHANGED A

DoContains == \E e \in Elems : Query("Contains", e, Contains(Self, e))

DoContent == Query("Content", 0, Content(Self))

DoAbsent == Query("Absent", 0, Absent(Self))

DoSize == Query("Size", 0, [err |-> "nil", val |-> Size(Self)])

DoN == Query("N", 0, [err |-> "nil", val |-> N(Self)])

DoString == Query("String", 0, [err |-> "nil", val |-> String(Self)])

Next ==
    \/ DoInsert
    \/ DoRemove
    \/ DoClear
    \/ DoContains
    \/ DoContent
    \/ DoAbsent
    \/ DoSize
    \/ DoN
    \/ DoString

Spec == Init /\ [][Next]_vars

----------------------------------------------------------------------------
\* The properties

Domain == 0..(N(Self) - 1)

Range(q) == {q[k] : k \in DOMAIN q}

Members == {e \in Domain : Contains(Self, e).val}

\* C1: in every reachable state 0 <= size <= N.
C1_SizeWithinCapacity == 0 <= size /\ size <= N(Self)

\* C2: Remove(e) of an in-range element that is absent (positions[e] >= size)
\* returns no error and changes neither size nor values nor positions.
C2_RemoveAbsentIsNoOp ==
    (/\ op.name = "Remove"
     /\ InRange(op.elem)
     /\ pre.positions[op.elem] >= pre.size)
    => (err = "nil" /\ Self = pre)

\* C3: the set follows the mathematical set A of the calls made: Content()
\* is exactly A, Absent() exactly the rest of 0..N-1, Contains(e) iff e in A.
C3_RefinesMathematicalSet ==
    /\ Content(Self).err = "nil"
    /\ Absent(Self).err = "nil"
    /\ Range(Content(Self).val) = A
    /\ Range(Absent(Self).val) = Domain \ A
    /\ \A e \in Domain : Contains(Self, e).val <=> e \in A

\* C4: a call whose element argument is in range, and any call without one,
\* completes normally: no index or slice bound out of range.
C4_NoRuntimeAbort ==
    (\/ op.name \in {"Clear", "Content", "Absent", "Size", "String"}
     \/ (op.name \in {"Insert", "Remove", "Contains"} /\ InRange(op.elem)))
    => err # "panic"

\* C5: Insert(e) and Remove(e) with e outside 0..N-1, negative e included,
\* return an error value and leave size, values and positions as they were.
C5_OutsideRangeIsError ==
    (op.name \in {"Insert", "Remove"} /\ ~InRange(op.elem))
    => (err = "error" /\ Self = pre)

\* C6: values and positions are permutations of 0..N-1 and inverses of each
\* other: values[positions[i]] = i and positions[values[i]] = i.
C6_MutualInverses ==
    /\ DOMAIN values = Domain
    /\ DOMAIN positions = Domain
    /\ Range(values) = Domain
    /\ Range(positions) = Domain
    /\ \A i \in Domain : values[positions[i]] = i /\ positions[values[i]] = i

\* C6 witness: a Remove has just swapped an element out of the middle of a
\* set that Inserts had already permuted.
C6_Witness ==
    /\ op.name = "Remove"
    /\ err = "nil"
    /\ values # pre.values
    /\ pre.values # New(N(Self)).values
    /\ size >= 1

\* C7: Size() is the number of elements e of 0..N-1 with Contains(e) true.
C7_SizeCountsMembers == Size(Self) = Cardinality(Members)

\* C8: Content() and Absent() have no duplicates, share no element and
\* together hold exactly 0..N-1; Content() holds the elements with Contains
\* true, Absent() those with Contains false.
C8_ContentAbsentPartition ==
    LET c == Content(Self)
        a == Absent(Self)
    IN  /\ c.err = "nil"
        /\ a.err = "nil"
        /\ Cardinality(Range(c.val)) = len(c.val)
        /\ Cardinality(Range(a.val)) = len(a.val)
        /\ Range(c.val) \cap Range(a.val) = {}
        /\ Range(c.val) \cup Range(a.val) = Domain
        /\ Range(c.val) = Members
        /\ Range(a.val) = Domain \ Members

\* C9: Insert(e) and Remove(e) with e >= N, for N = 0 too, return a non-nil
\* error and leave size, values and positions exactly as they were.
C9_AtOrAboveCapacityRejected ==
    (op.name \in {"Insert", "Remove"} /\ op.elem >= N(Self))
    => (err = "error" /\ Self = pre)

\* C9 witness: Remove(N) was called on a set holding elements.
C9_Witness ==
    /\ op.name = "Remove"
    /\ op.elem = N(Self)
    /\ err = "error"
    /\ size >= 1

\* C10: Insert(e) of an in-range element already present (positions[e] <
\* size) returns no error, changes neither size nor values nor positions, and
\* Contains(e) is still true.
C10_InsertPresentIsNoOp ==
    (/\ op.name = "Insert"
     /\ InRange(op.elem)
     /\ pre.positions[op.elem] < pre.size)
    => (/\ err = "nil"
        /\ Self = pre
        /\ Contains(Self, op.elem).val)

\* C10 witness: an element that is present, and not the last one inserted,
\* was inserted again.
C10_Witness ==
    /\ op.name = "Insert"
    /\ InRange(op.elem)
    /\ pre.size >= 2
    /\ pre.positions[op.elem] < pre.size - 1

\* How many times e occurs in the sequence q.
Occurrences(q, e) == Cardinality({k \in DOMAIN q : q[k] = e})

\* C11: after Insert(e) of an in-range e, Contains(e) is true and e occurs
\* exactly once in Content(); a Remove(e) that follows leaves Contains(e)
\* false and e exactly once in Absent().
C11_InsertRemoveRoundTrip ==
    (op.name = "Insert" /\ InRange(op.elem))
    => LET e == op.elem
           r == Remove(Self, e)
       IN  /\ err = "nil"
           /\ Contains(Self, e).val
           /\ Content(Self).err = "nil"
           /\ Occurrences(Content(Self).val, e) = 1
           /\ r.err = "nil"
           /\ ~Contains(r.ss, e).val
           /\ Absent(r.ss).err = "nil"
           /\ Occurrences(Absent(r.ss).val, e) = 1

\* C12: Clear() sets size to 0 and changes neither values nor positions;
\* afterwards Size() = 0, Content() is empty, Absent() holds all N elements
\* and Contains(e) is false for every e of 0..N-1.
C12_ClearEmptiesInPlace ==
    (op.name = "Clear")
    => /\ err = "nil"
       /\ size = 0
       /\ values = pre.values
       /\ positions = pre.positions
       /\ Size(Self) = 0
       /\ Content(Self) = [err |-> "nil", val |-> <<>>]
       /\ Absent(Self).err = "nil"
       /\ len(Absent(Self).val) = N(Self)
       /\ Range(Absent(Self).val) = Domain
       /\ \A e \in Domain : ~Contains(Self, e).val

\* C12 witness: Clear() was called on a set of two or more elements whose
\* slices Inserts had already permuted.
C12_Witness ==
    /\ op.name = "Clear"
    /\ pre.size >= 2
    /\ pre.values # New(N(Self)).values

\* C13: New(n), n >= 0, yields size = 0, N() = n and values[i] =
\* positions[i] = i for every i of 0..n-1, so that every element is absent
\* and Absent() lists 0, 1, ..., n-1 in ascending order.
C13_NewIsEmptyIdentity ==
    (op.name = "New")
    => LET n == op.elem
       IN  /\ err = "nil"
           /\ size = 0
           /\ Size(Self) = 0
           /\ N(Self) = n
           /\ DOMAIN values = 0..(n - 1)
           /\ DOMAIN positions = 0..(n - 1)
           /\ \A i \in 0..(n - 1) : values[i] = i /\ positions[i] = i
           /\ \A e \in 0..(n - 1) : ~Contains(Self, e).val
           /\ Absent(Self) = [err |-> "nil", val |-> [k \in 1..n |-> k - 1]]

\* C13 witness: a set of capacity two or more, just made.
C13_Witness == op.name = "New" /\ op.elem >= 2 /\ N(Self) >= 2

RECURSIVE Listing(_, _, _)
\* The entries "v: bool" for v, v+1, ..., n-1, comma-separated, the bool
\* telling whether v is in M.
Listing(M, v, n) ==
    IF v >= n THEN ""
    ELSE (IF v > 0 THEN ", " ELSE "") \o FmtInt(v) \o ": " \o FmtBool(v \in M)
         \o Listing(M, v + 1, n)

\* C14: String() renders one entry per element 0, 1, ..., N-1 in ascending
\* order, each with a boolean that is true iff the element was inserted and
\* not since removed or cleared; "{}" for N = 0.
C14_StringListsMembership ==
    (op.name = "String")
    => (err = "nil" /\ out = "{" \o Listing(A, 0, N(Self)) \o "}")

\* C14, the part that is about String alone: the boolean rendered for v is
\* Contains(v).
C14_StringMatchesContains ==
    (op.name = "String")
    => (err = "nil" /\ out = "{" \o Listing(Members, 0, N(Self)) \o "}")

\* C15: Insert(e) and Remove(e) of an in-range e, present or absent, leave
\* Contains(f) as it was for every other element f.
C15_OtherMembershipsKept ==
    (op.name \in {"Insert", "Remove"} /\ InRange(op.elem))
    => \A f \in Domain \ {op.elem} :
           Contains(Self, f).val = Contains(pre, f).val

\* The compare-then-decrement variant of Remove: unchanged when elem is
\* absent, else size is decremented and p swapped with the new size.
Remove_CompareThenDecrement(ss, elem) ==
    IF elem >= N(ss) THEN Return(ss, "error")
    ELSE IF elem \notin DOMAIN ss.positions THEN Return(ss, "panic")
    ELSE LET p == ss.positions[elem]
         IN  IF p >= ss.size THEN Return(ss, "nil")
             ELSE LET s1 == [ss EXCEPT !.size = @ - 1]
                  IN  swap(s1, p, s1.size)

\* C16: for an in-range elem, Remove as coded and the compare-then-decrement
\* variant end with the same size, values and positions.
C16_RemoveOrderingsAgree ==
    (op.name = "Remove" /\ InRange(op.elem))
    => Return(Self, err) = Remove_CompareThenDecrement(pre, op.elem)

\* C17: Remove(e) of a present e at position p decrements size by exactly
\* 1; if p is the new size both slices are unchanged, otherwise the element
\* that was at index size-1 moves to index p, e moves to index size-1 and
\* every other entry of values and positions is unchanged, so the entries of
\* Content() other than the moved one stay where they were.
C17_RemovePresentEffect ==
    (/\ op.name = "Remove"
     /\ InRange(op.elem)
     /\ pre.positions[op.elem] < pre.size)
    => LET e    == op.elem
           p    == pre.positions[e]
           s    == pre.size - 1
           last == pre.values[s]
       IN  /\ err = "nil"
           /\ size = s
           /\ IF p = s
              THEN values = pre.values /\ positions = pre.positions
              ELSE /\ values[p] = last
                   /\ values[s] = e
                   /\ positions[last] = p
                   /\ positions[e] = s
                   /\ \A i \in Domain \ {p, s} : values[i] = pre.values[i]
                   /\ \A v \in Domain \ {e, last} :
                          positions[v] = pre.positions[v]
           /\ Content(Self).err = "nil"
           /\ \A k \in 1..s :
                  k - 1 # p => Content(Self).val[k] = Content(pre).val[k]

\* C17 witness: a Remove took an element out of the middle of Content(),
\* with another element before it and the last one moved into its place.
C17_Witness ==
    /\ op.name = "Remove"
    /\ InRange(op.elem)
    /\ pre.size >= 3
    /\ pre.positions[op.elem] = 1
    /\ err = "nil"

\* C18: Insert(e) of an absent e at position p increments size by exactly
\* 1, puts e at index old-size of values and the element that was there at
\* index p, and changes no other entry of values and positions; the
\* Content() of before is a prefix of the new one, which ends with e.
C18_InsertAbsentEffect ==
    (/\ op.name = "Insert"
     /\ InRange(op.elem)
     /\ pre.positions[op.elem] >= pre.size)
    => LET e    == op.elem
           p    == pre.positions[e]
           s    == pre.size
       IN  /\ err = "nil"
           /\ size = s + 1
           /\ s \in Domain
           /\ values[s] = e
           /\ values[p] = (IF p = s THEN e ELSE pre.values[s])
           /\ positions[e] = s
           /\ p # s => positions[pre.values[s]] = p
           /\ \A i \in Domain \ {p, s} : values[i] = pre.values[i]
           /\ \A v \in Domain \ {e, pre.values[s]} :
                  positions[v] = pre.positions[v]
           /\ Content(pre).err = "nil"
           /\ Content(Self) =
                  [err |-> "nil", val |-> Append(Content(pre).val, e)]

====
